---- MODULE Spec2Model ----
(***************************************************************************)
(* Model of solana_leader_schedule (src/src/main.rs): main() fetches the   *)
(* current epoch and every stake account, sums the active delegations per  *)
(* vote account, prints a header for current_epoch + 1 and then the        *)
(* leader schedule that leader_schedule() obtains from                     *)
(* solana_ledger's LeaderSchedule::new.                                    *)
(*                                                                         *)
(* A u64 is modelled as an integer modulo 2^WordBits.  The order in which  *)
(* the RPC node returns the accounts is not fixed by anything, so the      *)
(* response is a bag and the for loop takes any account still pending.     *)
(* The program is run a second time on the same snapshot so that two runs  *)
(* can be compared.                                                        *)
(***************************************************************************)
EXTENDS Integers, Sequences, FiniteSets, Bags, TLC

(* ------------------------------ bounds -------------------------------- *)
\* width of the modelled u64
WordBits == 16
\* number of stake accounts in a response
MaxRecords == 2
\* number of distinct vote accounts (Pubkey values 1..MaxValidators)
MaxValidators == 2
\* SLOTS_IN_EPOCH / NUM_CONSECUTIVE_LEADER_SLOTS (108000 in the program)
LeaderGroups == 2
\* an epoch the RPC node reports; its little-endian encoding has two non-zero bytes
BaseEpoch == 257

(* ----------------------------- constants ------------------------------ *)
\* solana_sdk::clock::NUM_CONSECUTIVE_LEADER_SLOTS
NUM_CONSECUTIVE_LEADER_SLOTS == 4
\* const SLOTS_IN_EPOCH : u64 = 432000, scaled to LeaderGroups groups
SLOTS_IN_EPOCH == LeaderGroups * NUM_CONSECUTIVE_LEADER_SLOTS
\* let mut seed = [0u8; 32]
SeedLen == 32
\* size of u64::to_le_bytes()
U64Bytes == 8

Modulus == 2 ^ WordBits
U64_MAX == Modulus - 1

Pubkeys == 1 .. MaxValidators

(* ------------------------- u64 arithmetic ----------------------------- *)
\* a + b does not fit a u64
Overflows(a, b) == a + b >= Modulus

WrappingAdd_overwrite(a, b) == b

\* a + b as a release build computes it
WrappingAdd(a, b) == (a + b) % Modulus

NextEpoch_same(e) == e

\* current_epoch + 1 (lines 119 and 121), where it does not panic
NextEpoch(e) == WrappingAdd(e, 1)

(* ------------------------------ inputs -------------------------------- *)
\* epochs the RPC node may report
CurrentEpochs == {BaseEpoch - 1, BaseEpoch, U64_MAX}

\* (activation_epoch, deactivation_epoch) of a delegation
EpochPairs ==
    { <<BaseEpoch - 1, BaseEpoch - 1>>, <<BaseEpoch - 1, BaseEpoch>>,
      <<BaseEpoch - 1, U64_MAX>>, <<BaseEpoch, U64_MAX>>,
      <<U64_MAX, U64_MAX>> }

\* decoded StakeState::Stake accounts
StakeAccounts ==
    { [kind |-> "Stake", voter_pubkey |-> v, stake |-> s,
       activation_epoch |-> p[1], deactivation_epoch |-> p[2]] :
         v \in Pubkeys, s \in {1}, p \in EpochPairs }
    \cup
    { [kind |-> "Stake", voter_pubkey |-> v, stake |-> s,
       activation_epoch |-> BaseEpoch - 1, deactivation_epoch |-> U64_MAX] :
         v \in Pubkeys, s \in {0, U64_MAX} }

\* the other accounts owned by the stake program: zero-length data, data that
\* decodes to another StakeState variant, data that does not decode
OtherAccounts ==
    { [kind |-> k, voter_pubkey |-> 0, stake |-> 0,
       activation_epoch |-> 0, deactivation_epoch |-> 0] :
         k \in {"ZeroLength", "NotStake", "Undecodable"} }

Accounts == StakeAccounts \cup OtherAccounts

Single(a) == SetToBag({a})

RECURSIVE ResponsesUpTo(_)
ResponsesUpTo(n) ==
    IF n = 0 THEN {EmptyBag}
    ELSE LET smaller == ResponsesUpTo(n - 1)
         IN  smaller \cup { b (+) Single(a) : b \in smaller, a \in Accounts }

Responses == ResponsesUpTo(MaxRecords)

(* ------------------------ the stake filter ---------------------------- *)
IsActive_gt(delegation, epoch) ==
    /\ ~(delegation.activation_epoch > epoch)
    /\ ~(delegation.deactivation_epoch < epoch)

IsActive_le(delegation, epoch) ==
    /\ ~(delegation.activation_epoch >= epoch)
    /\ ~(delegation.deactivation_epoch <= epoch)

\* neither `continue` of lines 105-111 is taken
IsActive(delegation, epoch) ==
    /\ ~(delegation.activation_epoch >= epoch)
    /\ ~(delegation.deactivation_epoch < epoch)

\* HashMap::<Pubkey, u64>::new()
EmptyMap == [k \in {} |-> 0]

\* *(stakes.entry(key).or_insert(0)) += amount, where the sum fits or wraps
Credit(map, key, amount) ==
    [k \in DOMAIN map \cup {key} |->
        IF k = key
        THEN WrappingAdd(IF key \in DOMAIN map THEN map[key] ELSE 0, amount)
        ELSE map[k]]

\* the += of line 113 overflows
CreditOverflows(map, key, amount) ==
    key \in DOMAIN map /\ Overflows(map[key], amount)

(* --------------------------- sort_stakes ------------------------------ *)
\* Ord::cmp on u64 and on Pubkey
Cmp(a, b) == IF a < b THEN "Less" ELSE IF a = b THEN "Equal" ELSE "Greater"

compare_ascending_pubkey(l, r) ==
    IF r[2] = l[2] THEN Cmp(l[1], r[1]) ELSE Cmp(r[2], l[2])

\* the closure given to sort_unstable_by; l and r are (pubkey, stake) pairs
compare(l, r) ==
    IF r[2] = l[2] THEN Cmp(r[1], l[1]) ELSE Cmp(r[2], l[2])

RECURSIVE InsertSorted(_, _)
InsertSorted(x, s) ==
    IF s = <<>> THEN <<x>>
    ELSE IF compare(x, Head(s)) = "Greater"
         THEN <<Head(s)>> \o InsertSorted(x, Tail(s))
         ELSE <<x>> \o s

\* the result of sort_unstable_by with the closure above
RECURSIVE SortUnstableBy(_)
SortUnstableBy(v) ==
    IF v = <<>> THEN <<>> ELSE InsertSorted(Head(v), SortUnstableBy(Tail(v)))

\* Vec::dedup: drops each element equal to the one before it
RECURSIVE Dedup(_)
Dedup(v) ==
    IF Len(v) <= 1 THEN v
    ELSE IF v[1] = v[2] THEN Dedup(Tail(v))
         ELSE <<v[1]>> \o Dedup(Tail(v))

sort_stakes_unsorted(v) == Dedup(v)

sort_stakes(v) == Dedup(SortUnstableBy(v))

(* ----------------------------- the seed ------------------------------- *)
\* x >> (8 * k)
RECURSIVE Shr8(_, _)
Shr8(x, k) == IF k = 0 THEN x ELSE Shr8(x \div 256, k - 1)

to_le_bytes_big_endian(x) == [i \in 1 .. U64Bytes |-> Shr8(x, U64Bytes - i) % 256]

\* u64::to_le_bytes
to_le_bytes(x) == [i \in 1 .. U64Bytes |-> Shr8(x, i - 1) % 256]

\* seed = [0u8; 32]; seed[0..8].copy_from_slice(&epoch.to_le_bytes())
Seed(epoch) ==
    [i \in 1 .. SeedLen |-> IF i <= U64Bytes THEN to_le_bytes(epoch)[i] ELSE 0]

(* ------------------------------ output -------------------------------- *)
\* Display of a u64: its decimal digits
RECURSIVE Display(_)
Display(n) == IF n < 10 THEN <<n>> ELSE Append(Display(n \div 10), n % 10)

\* println!("The leader schedule for {} will be:", epoch)
HeaderLine(epoch) == [text |-> "The leader schedule for {} will be:", value |-> Display(epoch)]

\* println!("{}", leader)
LeaderLine(leader) == [text |-> "{}", value |-> <<leader>>]

(* ------------------- solana_ledger::LeaderSchedule -------------------- *)
\* WeightedIndex has nothing to sample from: no entry, or weights summing to 0
NothingToSample(ids_and_stakes) ==
    \A i \in 1 .. Len(ids_and_stakes) : ids_and_stakes[i][2] = 0

\* LeaderSchedule::new(ids_and_stakes, seed, len, repeat): slot i is led by the
\* entry sampled for group i / repeat.  picks[g] is the index the seeded
\* generator yields for group g; which index that is, is left open.
LeaderSchedule_new(ids_and_stakes, picks, len, repeat) ==
    [i \in 1 .. len |-> ids_and_stakes[picks[((i - 1) \div repeat) + 1]][1]]

\* every sequence of samples for a schedule over n entries
Picks(n) == [1 .. LeaderGroups -> 1 .. n]

(* -------------------------- leader_schedule --------------------------- *)
\* the orders in which HashMap::iter may visit the keys
IterOrders(map) ==
    { o \in [1 .. Cardinality(DOMAIN map) -> DOMAIN map] :
        \A i, j \in DOMAIN o : i # j => o[i] # o[j] }

\* stakes.iter().map(|(pubkey, stake)| (*pubkey, *stake)).collect()
Collect(map, order) == [i \in DOMAIN order |-> <<order[i], map[order[i]]>>]

leader_schedule_swapped(epoch, vec, picks) ==
    LET sorted_stakes == sort_stakes(vec)
    IN  [seed |-> Seed(epoch),
         stakes |-> sorted_stakes,
         slot_leaders |->
            IF NothingToSample(sorted_stakes) THEN <<>>
            ELSE LeaderSchedule_new(sorted_stakes, picks,
                                    NUM_CONSECUTIVE_LEADER_SLOTS, SLOTS_IN_EPOCH)]

\* leader_schedule(epoch, stakes); slot_leaders = <<>> stands for the panic of
\* LeaderSchedule::new
leader_schedule(epoch, vec, picks) ==
    LET sorted_stakes == sort_stakes(vec)
    IN  [seed |-> Seed(epoch),
         stakes |-> sorted_stakes,
         slot_leaders |->
            IF NothingToSample(sorted_stakes) THEN <<>>
            ELSE LeaderSchedule_new(sorted_stakes, picks,
                                    SLOTS_IN_EPOCH, NUM_CONSECUTIVE_LEADER_SLOTS)]

(* ------------------------------- state -------------------------------- *)
VARIABLES
    pc,               \* where main() is
    run,              \* 1: first run, 2: second run on the same snapshot
    overflow_checks,  \* the build panics on u64 overflow (debug) or wraps (release)
    current_epoch,    \* let current_epoch
    response,         \* let response: the accounts fetched
    pending,          \* the accounts the for loop has not visited yet
    added,            \* the accounts whose stake line 113 added
    stakes,           \* let mut stakes
    seed,             \* leader_schedule: seed
    sorted,           \* leader_schedule: stakes after sort_stakes
    slot_leaders,     \* the LeaderSchedule returned
    output,           \* lines written to stdout
    prev              \* what the first run did

vars == <<pc, run, overflow_checks, current_epoch, response, pending, added,
          stakes, seed, sorted, slot_leaders, output, prev>>

NoRun == [pc |-> "none", current_epoch |-> 0, response |-> EmptyBag,
          pending |-> EmptyBag, stakes |-> EmptyMap, seed |-> <<>>,
          sorted |-> <<>>, slot_leaders |-> <<>>, output |-> <<>>]

Fresh ==
    /\ pc = "start"
    /\ current_epoch = 0
    /\ response = EmptyBag
    /\ pending = EmptyBag
    /\ added = EmptyBag
    /\ stakes = EmptyMap
    /\ seed = <<>>
    /\ sorted = <<>>
    /\ slot_leaders = <<>>
    /\ output = <<>>

Init ==
    /\ Fresh
    /\ run = 1
    /\ overflow_checks \in BOOLEAN
    /\ prev = NoRun

(* ------------------------------ main() -------------------------------- *)
\* rpc_client.get_epoch_info() succeeds
FetchEpoch ==
    /\ pc = "start"
    /\ \E e \in (IF run = 1 THEN CurrentEpochs ELSE {prev.current_epoch}) :
          current_epoch' = e
    /\ pc' = "fetch_accounts"
    /\ UNCHANGED <<run, overflow_checks, response, pending, added, stakes, seed,
                   sorted, slot_leaders, output, prev>>

\* get_epoch_info() fails: error_exit
FetchEpochFails ==
    /\ pc = "start"
    /\ run = 1
    /\ pc' = "rpc_failed"
    /\ UNCHANGED <<run, overflow_checks, current_epoch, response, pending, added,
                   stakes, seed, sorted, slot_leaders, output, prev>>

\* rpc_client.get_program_accounts() succeeds
FetchAccounts ==
    /\ pc = "fetch_accounts"
    /\ \E r \in (IF run = 1 THEN Responses ELSE {prev.response}) :
          /\ response' = r
          /\ pending' = r
    /\ pc' = "loop"
    /\ UNCHANGED <<run, overflow_checks, current_epoch, added, stakes, seed,
                   sorted, slot_leaders, output, prev>>

\* get_program_accounts() fails: error_exit
FetchAccountsFails ==
    /\ pc = "fetch_accounts"
    /\ run = 1
    /\ pc' = "rpc_failed"
    /\ UNCHANGED <<run, overflow_checks, current_epoch, response, pending, added,
                   stakes, seed, sorted, slot_leaders, output, prev>>

\* one iteration of the for loop that ends in `continue` or in `_ => ()`
SkipAccount ==
    /\ pc = "loop"
    /\ \E a \in BagToSet(pending) :
          /\ \/ a.kind = "ZeroLength"
             \/ a.kind = "NotStake"
             \/ a.kind = "Stake" /\ ~IsActive(a, current_epoch)
          /\ pending' = pending (-) Single(a)
    /\ UNCHANGED <<pc, run, overflow_checks, current_epoch, response, added,
                   stakes, seed, sorted, slot_leaders, output, prev>>

\* StakeState::deserialize fails: error_exit
DecodeFails ==
    /\ pc = "loop"
    /\ \E a \in BagToSet(pending) : a.kind = "Undecodable"
    /\ pc' = "exited"
    /\ UNCHANGED <<run, overflow_checks, current_epoch, response, pending, added,
                   stakes, seed, sorted, slot_leaders, output, prev>>

\* one iteration that reaches line 113
AddStake ==
    /\ pc = "loop"
    /\ \E a \in BagToSet(pending) :
          /\ a.kind = "Stake"
          /\ IsActive(a, current_epoch)
          /\ \/ /\ overflow_checks
                /\ CreditOverflows(stakes, a.voter_pubkey, a.stake)
                /\ pc' = "panicked"
                /\ UNCHANGED <<pending, added, stakes>>
             \/ /\ ~(overflow_checks /\ CreditOverflows(stakes, a.voter_pubkey, a.stake))
                /\ stakes' = Credit(stakes, a.voter_pubkey, a.stake)
                /\ added' = added (+) Single(a)
                /\ pending' = pending (-) Single(a)
                /\ pc' = pc
    /\ UNCHANGED <<run, overflow_checks, current_epoch, response, seed, sorted,
                   slot_leaders, output, prev>>

\* line 119
PrintHeader ==
    /\ pc = "loop"
    /\ pending = EmptyBag
    /\ \/ /\ overflow_checks
          /\ Overflows(current_epoch, 1)
          /\ pc' = "panicked"
          /\ output' = output
       \/ /\ ~(overflow_checks /\ Overflows(current_epoch, 1))
          /\ output' = Append(output, HeaderLine(NextEpoch(current_epoch)))
          /\ pc' = "schedule"
    /\ UNCHANGED <<run, overflow_checks, current_epoch, response, pending, added,
                   stakes, seed, sorted, slot_leaders, prev>>

\* the same arguments gave this schedule in the first run: the generator is
\* seeded by the seed alone, so it gives it again
SameAsBefore(result) ==
    (run = 2 /\ prev.slot_leaders # <<>> /\ prev.seed = result.seed
        /\ prev.sorted = result.stakes)
    => result.slot_leaders = prev.slot_leaders

\* line 121: leader_schedule(current_epoch + 1, stakes)
Schedule ==
    /\ pc = "schedule"
    /\ \E order \in IterOrders(stakes) :
          LET vec == Collect(stakes, order)
              n == Len(sort_stakes(vec))
          IN  \E picks \in (IF n = 0 THEN {<<>>} ELSE Picks(n)) :
                 LET result == leader_schedule(NextEpoch(current_epoch), vec, picks)
                 IN  /\ SameAsBefore(result)
                     /\ seed' = result.seed
                     /\ sorted' = result.stakes
                     /\ slot_leaders' = result.slot_leaders
                     /\ pc' = IF result.slot_leaders = <<>> THEN "panicked" ELSE "print"
    /\ UNCHANGED <<run, overflow_checks, current_epoch, response, pending, added,
                   stakes, output, prev>>

\* lines 121-123: for leader in ...get_slot_leaders() { println!("{}", leader) }
PrintLeaders ==
    /\ pc = "print"
    /\ output' = output \o [i \in DOMAIN slot_leaders |-> LeaderLine(slot_leaders[i])]
    /\ pc' = "done"
    /\ UNCHANGED <<run, overflow_checks, current_epoch, response, pending, added,
                   stakes, seed, sorted, slot_leaders, prev>>

Terminated == pc \in {"done", "panicked", "exited"}

\* the program is started again, with the same build, on the same snapshot
RunAgain ==
    /\ Terminated
    /\ run = 1
    /\ run' = 2
    /\ prev' = [pc |-> pc, current_epoch |-> current_epoch, response |-> response,
                pending |-> pending, stakes |-> stakes, seed |-> seed,
                sorted |-> sorted, slot_leaders |-> slot_leaders, output |-> output]
    /\ pc' = "start"
    /\ current_epoch' = 0
    /\ response' = EmptyBag
    /\ pending' = EmptyBag
    /\ added' = EmptyBag
    /\ stakes' = EmptyMap
    /\ seed' = <<>>
    /\ sorted' = <<>>
    /\ slot_leaders' = <<>>
    /\ output' = <<>>
    /\ UNCHANGED overflow_checks

Next ==
    \/ FetchEpoch
    \/ FetchEpochFails
    \/ FetchAccounts
    \/ FetchAccountsFails
    \/ SkipAccount
    \/ DecodeFails
    \/ AddStake
    \/ PrintHeader
    \/ Schedule
    \/ PrintLeaders
    \/ RunAgain

Spec == Init /\ [][Next]_vars

(* ====================== properties of the program ===================== *)
\* the accounts the for loop has finished with
Processed == response (-) pending

\* the filtering rule as stated: active for target epoch T
RuleActive(a, T) ==
    a.kind = "Stake" /\ a.activation_epoch < T /\ a.deactivation_epoch >= T

\* exact sum of stake over the accounts of `bag` that satisfy the rule for T
\* and delegate to v
RECURSIVE SumOver(_, _, _, _)
SumOver(S, bag, v, T) ==
    IF S = {} THEN 0
    ELSE LET a == CHOOSE x \in S : TRUE
         IN  (IF RuleActive(a, T) /\ a.voter_pubkey = v
              THEN CopiesIn(a, bag) * a.stake ELSE 0)
             + SumOver(S \ {a}, bag, v, T)

ActiveSum(v) == SumOver(BagToSet(Processed), Processed, v, current_epoch)

\* sum of the values a map stores for the keys in S
RECURSIVE MapTotal(_, _)
MapTotal(map, S) ==
    IF S = {} THEN 0
    ELSE LET k == CHOOSE x \in S : TRUE IN map[k] + MapTotal(map, S \ {k})

StoredTotal == MapTotal(stakes, DOMAIN stakes)

ActiveTotal == MapTotal([v \in Pubkeys |-> ActiveSum(v)], Pubkeys)

\* the number a sequence of decimal digits denotes
RECURSIVE ParseDecimal(_)
ParseDecimal(ds) ==
    IF ds = <<>> THEN 0
    ELSE 10 * ParseDecimal(SubSeq(ds, 1, Len(ds) - 1)) + ds[Len(ds)]

\* the u64 whose little-endian bytes are bytes[from .. U64Bytes]
RECURSIVE FromLeBytes(_, _)
FromLeBytes(bytes, from) ==
    IF from > U64Bytes THEN 0
    ELSE bytes[from] + 256 * FromLeBytes(bytes, from + 1)

HeaderEpoch == ParseDecimal(output[1].value)

SeedEpoch == FromLeBytes(seed, 1)

\* leader_schedule() has been called
Scheduled == seed # <<>>

(* C1: a processed stake account has its stake added if and only if its    *)
(* activation_epoch is below, and its deactivation_epoch is not below, the *)
(* epoch the filter compares with (current_epoch); no other account is     *)
(* added.                                                                  *)
C1_FilterBoundaries ==
    \A a \in BagToSet(Processed) :
        CopiesIn(a, added) =
            IF RuleActive(a, current_epoch) THEN CopiesIn(a, Processed) ELSE 0

\* an account active exactly at the boundary was added, and one activated in
\* the filter's epoch was skipped
C1_Witness ==
    /\ \E a \in BagToSet(added) :
          /\ a.activation_epoch = current_epoch - 1
          /\ a.deactivation_epoch = current_epoch
    /\ \E b \in BagToSet(Processed) :
          /\ b.kind = "Stake"
          /\ b.activation_epoch = current_epoch
          /\ ~BagIn(b, added)

(* C2 as claimed: in a complete run the stake filter, the header and the   *)
(* seed all use the one epoch current_epoch + 1.                           *)
C2_SingleTargetEpoch ==
    pc = "done" =>
        /\ HeaderEpoch = current_epoch + 1
        /\ SeedEpoch = current_epoch + 1
        /\ \A a \in BagToSet(Processed) :
              a.kind = "Stake" => (BagIn(a, added) <=> RuleActive(a, current_epoch + 1))

(* C2 amended: in a complete run the header and the seed both name         *)
(* current_epoch + 1 modulo 2^64, while the accounts added are those       *)
(* active for current_epoch: one activated in current_epoch is left out    *)
(* and one deactivated in current_epoch is counted.                        *)
C2_HeaderAndSeedOneAhead ==
    pc = "done" =>
        /\ HeaderEpoch = (current_epoch + 1) % Modulus
        /\ SeedEpoch = (current_epoch + 1) % Modulus
        /\ \A a \in BagToSet(Processed) :
              a.kind = "Stake" =>
                 /\ BagIn(a, added) <=> RuleActive(a, current_epoch)
                 /\ a.activation_epoch = current_epoch => ~BagIn(a, added)
                 /\ (a.activation_epoch < current_epoch
                        /\ a.deactivation_epoch = current_epoch) => BagIn(a, added)

\* a complete run that left out an account activated in current_epoch and
\* never deactivated
C2_Witness ==
    /\ pc = "done"
    /\ \E a \in BagToSet(Processed) :
          /\ a.kind = "Stake"
          /\ a.activation_epoch = current_epoch
          /\ a.deactivation_epoch = U64_MAX
          /\ ~BagIn(a, added)

(* C3 as claimed: with an empty stake table the run fails having printed   *)
(* nothing, and the output of a run is never anything but nothing or the   *)
(* header followed by SLOTS_IN_EPOCH leader lines.                         *)
C3_NoPartialOutput ==
    /\ (pc \in {"schedule", "print", "done", "panicked"}
          /\ pending = EmptyBag /\ stakes = EmptyMap)
       => (output = <<>> /\ pc # "done")
    /\ (Terminated \/ pc = "rpc_failed")
       => (output = <<>> \/ Len(output) = 1 + SLOTS_IN_EPOCH)

(* C4 as claimed: the value stored for a validator is the exact sum of the *)
(* stake of its active accounts, and the stored values add up to the stake *)
(* of all active accounts.                                                 *)
C4_ExactSum ==
    /\ \A v \in Pubkeys :
          IF v \in DOMAIN stakes THEN stakes[v] = ActiveSum(v) ELSE ActiveSum(v) = 0
    /\ StoredTotal = ActiveTotal

(* C4 amended: the value stored for a validator is the sum of the stake of *)
(* its active accounts modulo 2^64, a build with overflow checks never     *)
(* stores a sum of 2^64 or more (it panics at that addition), a validator  *)
(* without an entry has no active stake, and the stored values add up to   *)
(* the stake of all active accounts whenever every per-validator sum is    *)
(* below 2^64.                                                             *)
C4_SumModulo ==
    /\ \A v \in Pubkeys :
          IF v \in DOMAIN stakes
          THEN /\ stakes[v] = ActiveSum(v) % Modulus
               /\ overflow_checks => ActiveSum(v) < Modulus
          ELSE ActiveSum(v) = 0
    /\ (\A v \in Pubkeys : ActiveSum(v) < Modulus) => StoredTotal = ActiveTotal

\* two accounts were added to the total of one validator
C4_Witness ==
    \E v \in DOMAIN stakes :
        /\ BagCardinality(added) = 2
        /\ \A a \in BagToSet(added) : a.voter_pubkey = v /\ a.stake > 0

(* C5 as claimed: every validator in the table has a total above 0.        *)
C5_NoZeroEntries ==
    \A v \in DOMAIN stakes : stakes[v] > 0

(* C5 amended: a validator is in the table if and only if one of the       *)
(* processed accounts delegating to it is active, whatever its stake; its  *)
(* total is 0 only if all its active accounts have stake 0 or their sum    *)
(* reached 2^64.                                                           *)
C5_PresentIffActiveAccount ==
    \A v \in Pubkeys :
        /\ v \in DOMAIN stakes <=>
              \E a \in BagToSet(Processed) :
                  RuleActive(a, current_epoch) /\ a.voter_pubkey = v
        /\ (v \in DOMAIN stakes /\ stakes[v] = 0) =>
              \/ \A a \in BagToSet(added) : a.voter_pubkey = v => a.stake = 0
              \/ ActiveSum(v) >= Modulus

\* the scheduler is about to be handed a zero weight, while a validator with
\* only an inactive account is absent
C5_Witness ==
    /\ pc = "schedule"
    /\ \E v \in DOMAIN stakes : stakes[v] = 0
    /\ \E a \in BagToSet(Processed) :
          a.kind = "Stake" /\ a.voter_pubkey \notin DOMAIN stakes

C8_OrderIndependent ==
    (run = 2 /\ Terminated) =>
        /\ output = prev.output
        /\ pending = EmptyBag <=> prev.pending = EmptyBag
        /\ pending = EmptyBag => stakes = prev.stakes
        /\ sorted = prev.sorted
        /\ seed = prev.seed
        /\ slot_leaders = prev.slot_leaders

\* both runs completed with two validators of equal stake
C8_Witness ==
    /\ run = 2
    /\ pc = "done"
    /\ prev.pc = "done"
    /\ Len(sorted) = 2
    /\ sorted[1][2] = sorted[2][2]

(* C9: the sequence sort_stakes leaves holds one pair per key of the table *)
(* with that key's total, and is strictly decreasing by (stake, identity). *)
C9_CanonicalOrder ==
    Scheduled =>
        /\ Len(sorted) = Cardinality(DOMAIN stakes)
        /\ \A i \in DOMAIN sorted :
              /\ sorted[i][1] \in DOMAIN stakes
              /\ sorted[i][2] = stakes[sorted[i][1]]
        /\ \A i, j \in DOMAIN sorted :
              i < j =>
                 \/ sorted[i][2] > sorted[j][2]
                 \/ sorted[i][2] = sorted[j][2] /\ sorted[i][1] > sorted[j][1]

\* two validators with equal totals were sorted
C9_Witness ==
    /\ Scheduled
    /\ Len(sorted) = 2
    /\ sorted[1][2] = sorted[2][2]

(* C10: the seed has 32 bytes; byte i < 8 is (E div 256^i) mod 256 for the *)
(* epoch E passed to leader_schedule, the other bytes are 0, and E is      *)
(* recovered from the seed, so that distinct epochs have distinct seeds.   *)
(* (E < 2^WordBits <= 256^4, so E div 256^i = 0 for i >= 4.)               *)
C10_SeedDerivation ==
    Scheduled =>
        LET E == NextEpoch(current_epoch)
        IN  /\ Len(seed) = 32
            /\ \A i \in 0 .. 7 :
                  seed[i + 1] = IF i < 4 THEN (E \div (256 ^ i)) % 256 ELSE 0
            /\ \A i \in 8 .. 31 : seed[i + 1] = 0
            /\ SeedEpoch = E

\* a seed with two non-zero bytes
C10_Witness ==
    /\ Scheduled
    /\ seed[1] # 0
    /\ seed[2] # 0

====
